---- MODULE Spec2Model ----
(***************************************************************************)
(* Model of the mini-lb backend pool (backend_pool.py) and of its          *)
(* scheduler family (core/scheduler_impl.py).                              *)
(*                                                                         *)
(* Backend objects live in a small heap `objs` indexed by object id, so    *)
(* that a reference held by a request task, by a running health sweep or   *)
(* by the scheduler keeps denoting the same object after the pool's map    *)
(* entry for its url was removed or replaced.                              *)
(*                                                                         *)
(* The specifications:                                                     *)
(*   Spec         - the pool driven by request tasks, operators and the    *)
(*                  health-check sweep;                                    *)
(*   SchedSpec    - one scheduler object driven directly (set_backends,    *)
(*                  iter, next), as tests/test_scheduler.py drives it;     *)
(*   StatsSpec    - the statistics store: record_request, get_stats, the   *)
(*                  cleanup loop and the clock;                            *)
(*   CountersSpec - the statistics store next to add, remove,              *)
(*                  set_scheduler and the health-check sweep;              *)
(*   AppSpec      - the handlers of main.py over the pool;                 *)
(*   LoopSpec     - the start and stop of the two background loops;        *)
(*   MetricsSpec  - the metrics registry (core/metrics.py);                *)
(*   LockSpec     - the pool's operations with their lock acquisitions,    *)
(*                  writes and metric emissions in program order;          *)
(*   ContentionSpec - tasks going through the lock events of the           *)
(*                  operations one by one, with weak fairness.             *)
(***************************************************************************)
EXTENDS Integers, Sequences, FiniteSets, TLC

\* ---------------------------------------------------------------- bounds
MaxWeight == 1     \* weights offered to add() are 0..MaxWeight
MaxSchedWeight == 2 \* SchedSpec: weights are 0..MaxSchedWeight
MaxObjs == 2       \* size of the Backend object heap
NumTasks == 2      \* request handlers in flight at once
MaxSteps == 6      \* SchedSpec: next() calls per cursor
MaxConn == 1       \* SchedSpec: active_connections values are 0..MaxConn
MaxRecords == 2    \* record_request calls
MaxPeriods == 2    \* StatsSpec: period tokens in one get_stats call
MaxTicks == 3      \* steps of the clock

\* ------------------------------------------------------------- constants
None == 0
NoError == "ok"

\* Urls offered to add() and remove(); the scheduler harness also uses "b3".
PoolUrls == {"b1", "b2"}

Urls == PoolUrls \cup {"b3"}

\* Python's str ordering on the urls used here ("b1" < "b2" < "b3").
UrlRank(u) == CASE u = "b1" -> 1 [] u = "b2" -> 2 [] u = "b3" -> 3 [] OTHER -> 0

Algos == {"round_robin", "weighted", "least_conn", "weighted_least_conn", "least_requests", "source_hash"}

AlgoInputs == Algos \cup {"random"}

SchedulerKinds == Algos \ {"source_hash"}

Weights == 0..MaxWeight

Objs == 1..MaxObjs

Range(s) == {s[i] : i \in 1..Len(s)}

\* The two background loops of the pool.  For each: the task handle the
\* pool keeps (None or a task), the number of loop tasks of the kind that
\* exist, and whether a stop call is waiting for the cancelled task.
LoopKinds == {"health_check", "cleanup"}

NoLoop == [task |-> None, live |-> 0, stopping |-> FALSE]

\* MetricsCollector(): the three families, each a dict name -> key -> value.
NewMetricsCollector == [counters |-> <<>>, histograms |-> <<>>, gauges |-> <<>>]

\* Readings of time.time(), in seconds from the first reading; the clock
\* steps from one to the next.
ClockTimes == <<0, 400, 700, 86800, 90000>>

VARIABLES objs, backends, scheduler, scheduler_iter, source_hash, held, last, window, nsteps,
          request_times, total_requests, now, flap, loops, metrics, locks

vars == <<objs, backends, scheduler, scheduler_iter, source_hash, held, last, window, nsteps,
          request_times, total_requests, now, flap, loops, metrics, locks>>

\* ------------------------------------------------------- Backend objects
\* The dataclass Backend: url, weight, active_connections, healthy.
Backend(url, weight) == [url |-> url, weight |-> weight, active_connections |-> 0, healthy |-> TRUE]

\* A heap slot that holds no object.
NoBackend == [url |-> "", weight |-> 0, active_connections |-> 0, healthy |-> FALSE]

\* Python attribute lookup: an attribute exists iff the object carries it.
HasAttr(b, name) == name \in DOMAIN b

\* ------------------------------------------------------------ schedulers
\* The generator object returned by iter(scheduler).
NoIter == [state |-> "none", pos |-> 0]

FreshIter == [state |-> "fresh", pos |-> 0]

DoneIter == [state |-> "done", pos |-> 0]

\* Outcome of one next(): the backend yielded (or None), the exception
\* raised (or NoError) and the generator afterwards.
Yield(o, it) == [ret |-> o, err |-> NoError, it |-> it]

Raise(e) == [ret |-> None, err |-> e, it |-> DoneIter]

\* WeightedRoundRobinScheduler.set_backends: [backend] * backend.weight,
\* concatenated in configuration order (a list times n <= 0 is empty).
RECURSIVE Repeat(_, _)
Repeat(o, n) == IF n <= 0 THEN <<>> ELSE <<o>> \o Repeat(o, n - 1)

\* A repetition list that ignores the weights.
WeightedListUnweighted(list, O) == list

RECURSIVE WeightedList(_, _)
WeightedList(list, O) ==
  IF list = <<>> THEN <<>>
  ELSE Repeat(Head(list), O[Head(list)].weight) \o WeightedList(Tail(list), O)

\* {b.url: b for b in backends}: a later backend with the same url replaces
\* an earlier one.
DictByUrl(list, O) ==
  LET keep(i) == \A j \in (i + 1)..Len(list) : O[list[j]].url # O[list[i]].url
      F[i \in 0..Len(list)] ==
        IF i = 0 THEN <<>>
        ELSE IF keep(i) THEN Append(F[i - 1], list[i]) ELSE F[i - 1]
  IN F[Len(list)]

\* set_backends of the five scheduler classes.
SetBackends(kind, list, O) ==
  [kind |-> kind,
   backends |-> IF kind \in {"round_robin", "weighted"} THEN list ELSE DictByUrl(list, O),
   weighted |-> IF kind = "weighted" THEN WeightedList(list, O) ELSE <<>>]

\* The scheduler object as constructed with no arguments.
NewScheduler(kind) == [kind |-> kind, backends |-> <<>>, weighted |-> <<>>]

\* `while True: for backend in list: yield backend` (and `yield from list`).
CycleNext(list, it) ==
  IF it.state = "done" THEN Raise("StopIteration")
  ELSE IF it.state = "fresh"
       THEN IF list = <<>> THEN Raise("StopIteration")
            ELSE Yield(list[1], [state |-> "running", pos |-> 1])
       ELSE IF it.pos < Len(list)
            THEN Yield(list[it.pos + 1], [state |-> "running", pos |-> it.pos + 1])
            ELSE Yield(list[1], [state |-> "running", pos |-> 1])

\* A round robin that makes one pass over the list and then stops.
RoundRobinNextOnePass(s, it) ==
  IF it.state = "running" /\ it.pos >= Len(s.backends) THEN Raise("StopIteration")
  ELSE CycleNext(s.backends, it)

\* A round robin without the guard on the empty list: `while True` over an
\* empty `for` never yields and never returns.
RoundRobinNextSpins(s, it) ==
  IF s.backends = <<>> /\ it.state # "done"
  THEN [ret |-> None, err |-> "blocked", it |-> it]
  ELSE CycleNext(s.backends, it)

RoundRobinNext(s, it) == CycleNext(s.backends, it)

WeightedRoundRobinNext(s, it) == CycleNext(s.weighted, it)

\* Tuple order of the heap entries (key, url); a key is the fraction
\* num/den with den > 0, compared exactly.
HeapLess(e, f) ==
  \/ e.num * f.den < f.num * e.den
  \/ /\ e.num * f.den = f.num * e.den
     /\ UrlRank(e.url) < UrlRank(f.url)

\* heapq.heapify(heap); heap[0]: the least entry.
HeapMin(heap) == CHOOSE e \in heap : \A f \in heap \ {e} : HeapLess(e, f)

ConnEntry(o, O) == [num |-> O[o].active_connections, den |-> 1, url |-> O[o].url, obj |-> o]

\* min(backends, key=active_connections): the first of the least in
\* configuration order, as scripts/old_schedulers.py picked it.
LeastConnectionsNextFirstMin(s, it, O) ==
  LET least == {i \in 1..Len(s.backends) :
                  \A j \in 1..Len(s.backends) :
                    O[s.backends[i]].active_connections <= O[s.backends[j]].active_connections}
  IN IF it.state = "done" THEN Raise("StopIteration")
     ELSE IF it.state = "fresh" /\ s.backends = <<>> THEN Raise("StopIteration")
     ELSE Yield(s.backends[CHOOSE i \in least : \A j \in least : i <= j],
                [state |-> "running", pos |-> 0])

LeastConnectionsNext(s, it, O) ==
  IF it.state = "done" THEN Raise("StopIteration")
  ELSE IF it.state = "fresh" /\ s.backends = <<>> THEN Raise("StopIteration")
  ELSE Yield(HeapMin({ConnEntry(o, O) : o \in Range(s.backends)}).obj, [state |-> "running", pos |-> 0])

\* A ratio that ignores the weight.
RatioEntryUnweighted(o, O) == [num |-> O[o].active_connections, den |-> 1, url |-> O[o].url, obj |-> o]

RatioEntry(o, O) == [num |-> O[o].active_connections, den |-> O[o].weight, url |-> O[o].url, obj |-> o]

WeightedLeastConnectionsNext(s, it, O) ==
  LET heap == {RatioEntry(o, O) : o \in {x \in Range(s.backends) : O[x].weight > 0}}
  IN IF it.state = "done" THEN Raise("StopIteration")
     ELSE IF it.state = "fresh" /\ s.backends = <<>> THEN Raise("StopIteration")
     ELSE IF heap = {} THEN Raise("StopIteration")
     ELSE Yield(HeapMin(heap).obj, [state |-> "running", pos |-> 0])

RequestsEntry(o, O) == [num |-> O[o].total_requests, den |-> 1, url |-> O[o].url, obj |-> o]

\* Reads b.total_requests of every configured backend; the read raises
\* AttributeError on an object without that attribute, which ends the
\* generator.
LeastRequestsNext(s, it, O) ==
  IF it.state = "done" THEN Raise("StopIteration")
  ELSE IF it.state = "fresh" /\ s.backends = <<>> THEN Raise("StopIteration")
  ELSE IF \E o \in Range(s.backends) : ~HasAttr(O[o], "total_requests")
       THEN Raise("AttributeError")
  ELSE Yield(HeapMin({RequestsEntry(o, O) : o \in Range(s.backends)}).obj, [state |-> "running", pos |-> 0])

\* next(iter(scheduler)) for the scheduler's class.
SchedulerNext(s, it, O) ==
  CASE s.kind = "round_robin" -> RoundRobinNext(s, it)
    [] s.kind = "weighted" -> WeightedRoundRobinNext(s, it)
    [] s.kind = "least_conn" -> LeastConnectionsNext(s, it, O)
    [] s.kind = "weighted_least_conn" -> WeightedLeastConnectionsNext(s, it, O)
    [] s.kind = "least_requests" -> LeastRequestsNext(s, it, O)

\* ------------------------------------------------------------------ pool
\* [b for b in self.backends.values() if b.healthy], in insertion order.
HealthyBackends(bk, O) == SelectSeq(bk, LAMBDA o : O[o].healthy)

\* BackendPool._rebuild_scheduler: re-arm the current scheduler with the
\* healthy backends and take a new generator.
RebuildScheduler(bk, s, O) ==
  [scheduler |-> SetBackends(s.kind, HealthyBackends(bk, O), O), iter |-> FreshIter]

\* The in-lock part of BackendPool.select_backend up to the increment: the
\* scheduler and generator afterwards, the backend chosen and the exception
\* that leaves the coroutine (a StopIteration leaving a coroutine is turned
\* into RuntimeError).
SelectOutcome(bk, s, it, O) ==
  LET cur == IF it.state = "none" THEN RebuildScheduler(bk, s, O)
             ELSE [scheduler |-> s, iter |-> it]
      r1 == SchedulerNext(cur.scheduler, cur.iter, O)
      rb == RebuildScheduler(bk, cur.scheduler, O)
      r2 == SchedulerNext(rb.scheduler, rb.iter, O)
  IN IF HealthyBackends(bk, O) = <<>>
     THEN [scheduler |-> s, iter |-> it, ret |-> None, err |-> NoError]
     ELSE IF r1.err # "StopIteration"
     THEN [scheduler |-> cur.scheduler, iter |-> r1.it, ret |-> r1.ret, err |-> r1.err]
     ELSE [scheduler |-> rb.scheduler, iter |-> r2.it, ret |-> r2.ret,
           err |-> IF r2.err = "StopIteration" THEN "RuntimeError" ELSE r2.err]

\* A select that forgets the pre-increment.
IncrConnectionsForgotten(O, o) == O

\* backend.active_connections += 1
IncrConnections(O, o) == [O EXCEPT ![o].active_connections = @ + 1]

\* backend.active_connections -= 1
DecrConnections(O, o) == [O EXCEPT ![o].active_connections = @ - 1]

\* int(hashlib.md5(ip.encode()).hexdigest(), 16) reduced modulo 2520, the
\* least common multiple of 1..10, so that taking it modulo a list length
\* up to 10 gives what the full digest gives.
Md5Mod2520(ip) ==
  CASE ip = "10.0.0.1" -> 1956 [] ip = "10.0.0.2" -> 1808 [] ip = "10.0.0.3" -> 518
    [] ip = "10.0.0.4" -> 1271

ClientIps == {"10.0.0.1", "10.0.0.4"}

\* The healthy backends left in insertion order.
SortedByInsertion(list, O) == list

\* sorted(healthy_backends, key=lambda b: b.url)
SortedByUrl(list, O) ==
  LET S == Range(list)
      before(o) == Cardinality({p \in S : UrlRank(O[p].url) < UrlRank(O[o].url)})
  IN [i \in 1..Cardinality(S) |-> CHOOSE o \in S : before(o) = i - 1]

\* ------------------------------------------------------------ the heap
\* The pool's state as one record, so that an operation is a function from
\* state to state.
Cur ==
  [objs |-> objs, backends |-> backends, scheduler |-> scheduler,
   scheduler_iter |-> scheduler_iter, source_hash |-> source_hash, held |-> held,
   last |-> last, window |-> window, nsteps |-> nsteps,
   request_times |-> request_times, total_requests |-> total_requests, now |-> now,
   flap |-> flap, loops |-> loops, metrics |-> metrics, locks |-> locks]

\* Every reference to a Backend object, in a fixed order: the pool's map,
\* the request handlers between select and release, the caller of the last
\* operation.
Refs(st) ==
  LET H == {o \in Objs : st.held[o] > 0}
      holders[i \in 0..MaxObjs] ==
        IF i = 0 THEN <<>> ELSE IF i \in H THEN Append(holders[i - 1], i) ELSE holders[i - 1]
  IN st.backends \o holders[MaxObjs] \o <<st.last.ret>>

Live(st) == Range(Refs(st)) \ {None}

\* Object ids carry no meaning: after each operation the referenced objects
\* are renumbered in order of first reference and the others are dropped.
Compact(st) ==
  LET refs == Refs(st)
      order[i \in 0..Len(refs)] ==
        IF i = 0 THEN <<>>
        ELSE IF refs[i] = None \/ refs[i] \in Range(order[i - 1]) THEN order[i - 1]
        ELSE Append(order[i - 1], refs[i])
      old == order[Len(refs)]
      id == [o \in 0..MaxObjs |-> IF \E n \in 1..Len(old) : old[n] = o
                                  THEN CHOOSE n \in 1..Len(old) : old[n] = o
                                  ELSE None]
      ren(seq) == [i \in 1..Len(seq) |-> id[seq[i]]]
  IN [objs |-> [n \in Objs |-> IF n <= Len(old) THEN st.objs[old[n]] ELSE NoBackend],
      backends |-> ren(st.backends),
      scheduler |-> [kind |-> st.scheduler.kind,
                     backends |-> ren(st.scheduler.backends),
                     weighted |-> ren(st.scheduler.weighted)],
      scheduler_iter |-> st.scheduler_iter,
      source_hash |-> st.source_hash,
      held |-> [n \in Objs |-> IF n <= Len(old) THEN st.held[old[n]] ELSE 0],
      last |-> [st.last EXCEPT !.ret = id[st.last.ret]],
      window |-> ren(st.window),
      nsteps |-> st.nsteps,
      request_times |-> st.request_times,
      total_requests |-> st.total_requests,
      now |-> st.now,
      flap |-> [n \in Objs |-> IF n <= Len(old) THEN st.flap[old[n]] ELSE ""],
      loops |-> st.loops,
      metrics |-> st.metrics,
      locks |-> st.locks]

\* The next state is st.
Become(st) ==
  /\ objs' = st.objs
  /\ backends' = st.backends
  /\ scheduler' = st.scheduler
  /\ scheduler_iter' = st.scheduler_iter
  /\ source_hash' = st.source_hash
  /\ held' = st.held
  /\ last' = st.last
  /\ window' = st.window
  /\ nsteps' = st.nsteps
  /\ request_times' = st.request_times
  /\ total_requests' = st.total_requests
  /\ now' = st.now
  /\ flap' = st.flap
  /\ loops' = st.loops
  /\ metrics' = st.metrics
  /\ locks' = st.locks

\* Number of request handlers between select and release.
RECURSIVE SumUpTo(_, _)
SumUpTo(h, n) == IF n = 0 THEN 0 ELSE h[n] + SumUpTo(h, n - 1)

InFlight(h) == SumUpTo(h, MaxObjs)

\* What the last operation gave its caller: the backend returned and the
\* exception raised; arg is the argument the claims refer to (a client ip,
\* an algorithm name, a url), log the pool calls of a request in call
\* order (for get_stats, the tokens asked for), stats the mapping get_stats
\* returned, status the HTTP status a handler of main.py answered with.
Done(op, ret, err) ==
  [op |-> op, ret |-> ret, err |-> err, arg |-> "", log |-> <<>>, stats |-> <<>>, status |-> 0,
   events |-> <<>>]

DoneArg(op, arg, ret, err) == [Done(op, ret, err) EXCEPT !.arg = arg]

RoundRobinActive(st) == st.scheduler.kind = "round_robin" /\ ~st.source_hash

\* The results of the latest consecutive select_backend calls under
\* round_robin, at most as many as there are urls.
Trim(w) == IF Len(w) > Cardinality(PoolUrls) THEN Tail(w) ELSE w

Init ==
  /\ objs = [o \in Objs |-> NoBackend]
  /\ backends = <<>>
  /\ scheduler = NewScheduler("round_robin")
  /\ scheduler_iter = NoIter
  /\ source_hash = FALSE
  /\ held = [o \in Objs |-> 0]
  /\ last = Done("init", None, NoError)
  /\ window = <<>>
  /\ nsteps = 0
  /\ request_times = <<>>
  /\ total_requests = <<>>
  /\ now = ClockTimes[1]
  /\ flap = [o \in Objs |-> ""]
  /\ loops = [k \in LoopKinds |-> NoLoop]
  /\ metrics = NewMetricsCollector
  /\ locks = [todo |-> [t \in 1..NumTasks |-> <<>>],
              owner |-> [l \in {"pool", "metrics"} |-> None],
              waiters |-> [l \in {"pool", "metrics"} |-> <<>>]]

\* BackendPool.add: a new Backend object replaces the map entry of its url
\* (keeping the entry's position) or is appended; the scheduler is rebuilt.
add(st, url, weight) ==
  LET o == CHOOSE f \in Objs : f \notin Live(st)
      O1 == [st.objs EXCEPT ![o] = Backend(url, weight)]
      bk == IF \E i \in 1..Len(st.backends) : st.objs[st.backends[i]].url = url
            THEN [i \in 1..Len(st.backends) |->
                    IF st.objs[st.backends[i]].url = url THEN o ELSE st.backends[i]]
            ELSE Append(st.backends, o)
      rb == RebuildScheduler(bk, st.scheduler, O1)
  IN [st EXCEPT !.objs = O1, !.backends = bk, !.scheduler = rb.scheduler,
                !.scheduler_iter = rb.iter, !.window = <<>>,
                !.last = Done("membership", None, NoError)]

Add(url, weight) ==
  /\ Live(Cur) # Objs
  /\ Become(Compact(add(Cur, url, weight)))

\* A remove that pops the url and leaves the scheduler and its cursor.
remove_no_rebuild(st, url) ==
  [st EXCEPT !.backends = SelectSeq(st.backends, LAMBDA o : st.objs[o].url # url),
             !.window = <<>>,
             !.last = Done("membership", None, NoError)]

\* BackendPool.remove: pop the url if present; the scheduler is rebuilt.
remove(st, url) ==
  LET bk == SelectSeq(st.backends, LAMBDA o : st.objs[o].url # url)
      rb == RebuildScheduler(bk, st.scheduler, st.objs)
  IN [st EXCEPT !.backends = bk, !.scheduler = rb.scheduler,
                !.scheduler_iter = rb.iter, !.window = <<>>,
                !.last = Done("membership", None, NoError)]

Remove(url) ==
  /\ url \in PoolUrls
  /\ Become(Compact(remove(Cur, url)))

\* BackendPool.set_scheduler: the flag is cleared first; a known name
\* installs a new scheduler object (source_hash keeps the current one and
\* sets the flag) and rebuilds; an unknown name raises ValueError.
set_scheduler(st, algo) ==
  LET s == IF algo = "source_hash" THEN st.scheduler ELSE NewScheduler(algo)
      rb == RebuildScheduler(st.backends, s, st.objs)
  IN IF algo \in Algos
     THEN [st EXCEPT !.source_hash = (algo = "source_hash"), !.scheduler = rb.scheduler,
                     !.scheduler_iter = rb.iter, !.window = <<>>,
                     !.last = Done("set_scheduler", None, NoError)]
     ELSE [st EXCEPT !.source_hash = FALSE, !.window = <<>>,
                     !.last = Done("set_scheduler", None, "ValueError")]

SetScheduler(algo) ==
  /\ algo \in AlgoInputs
  /\ Become(Compact(set_scheduler(Cur, algo)))

\* BackendPool.select_backend, called by a request handler, which then
\* holds the backend returned.
select_backend(st) ==
  LET r == SelectOutcome(st.backends, st.scheduler, st.scheduler_iter, st.objs)
      ok == r.err = NoError /\ r.ret # None
      s1 == [st EXCEPT !.scheduler = r.scheduler, !.scheduler_iter = r.iter]
  IN [s1 EXCEPT !.objs = IF ok THEN IncrConnections(st.objs, r.ret) ELSE st.objs,
                !.held = IF ok THEN [st.held EXCEPT ![r.ret] = @ + 1] ELSE st.held,
                !.window = IF ok /\ RoundRobinActive(s1) THEN Trim(Append(st.window, r.ret)) ELSE <<>>,
                !.last = Done("select_backend", r.ret, r.err)]

SelectBackend ==
  /\ InFlight(held) < NumTasks
  /\ Become(Compact(select_backend(Cur)))

\* BackendPool.select_backend_by_ip, called by a request handler.
select_backend_by_ip(st, ip) ==
  LET hb == HealthyBackends(st.backends, st.objs)
      sb == SortedByUrl(hb, st.objs)
      o == IF hb = <<>> THEN None ELSE sb[(Md5Mod2520(ip) % Len(sb)) + 1]
  IN [st EXCEPT !.objs = IF o # None THEN IncrConnections(st.objs, o) ELSE st.objs,
                !.held = IF o # None THEN [st.held EXCEPT ![o] = @ + 1] ELSE st.held,
                !.last = DoneArg("select_backend_by_ip", ip, o, NoError)]

SelectBackendByIp(ip) ==
  /\ InFlight(held) < NumTasks
  /\ Become(Compact(select_backend_by_ip(Cur, ip)))

\* BackendPool.release(o) by a handler that holds o: the decrement is done,
\* then `backend.total_requests += 1` reads the attribute.
release(st, o) ==
  LET O1 == DecrConnections(st.objs, o)
      has == HasAttr(O1[o], "total_requests")
  IN [st EXCEPT !.objs = IF has THEN [O1 EXCEPT ![o].total_requests = @ + 1] ELSE O1,
                !.held[o] = @ - 1,
                !.last = Done("release", o, IF has THEN NoError ELSE "AttributeError")]

Release(o) ==
  /\ held[o] > 0
  /\ Become(Compact(release(Cur, o)))

\* BackendPool._health_check: one probe of a sweep.  The sweep probes the
\* objects of its snapshot of the pool's map one after the other, suspending
\* at each HEAD request, and sweeps follow one another for ever; an object
\* removed or replaced after the snapshot is still probed.  A probe sets
\* healthy = (status < 500), or False on a timeout or any other exception.
ProbeOutcomes == {"status_lt_500", "status_ge_500", "exception"}

health_check(st, o, outcome) ==
  LET h == (outcome = "status_lt_500")
  IN [st EXCEPT !.objs[o].healthy = h,
                !.window = IF h # st.objs[o].healthy THEN <<>> ELSE st.window,
                !.last = Done("health_check", None, NoError)]

HealthCheck(o, outcome) ==
  /\ o \in Live(Cur)
  /\ Become(Compact(health_check(Cur, o, outcome)))

Next ==
  \/ \E u \in PoolUrls, w \in Weights : Add(u, w)
  \/ \E u \in PoolUrls : Remove(u)
  \/ \E a \in AlgoInputs : SetScheduler(a)
  \/ SelectBackend
  \/ \E ip \in ClientIps : SelectBackendByIp(ip)
  \/ \E o \in Objs : Release(o)
  \/ \E o \in Objs, r \in ProbeOutcomes : HealthCheck(o, r)

Spec == Init /\ [][Next]_vars

\* ------------------------------------------------- scheduler harness
\* One scheduler object used directly, as tests/test_scheduler.py does:
\* Backend objects are constructed, set_backends configures the scheduler
\* with them in some order, iter() takes a generator and next() steps it,
\* while the backends' counters change between steps.
Injective(f) == \A i, j \in DOMAIN f : f[i] = f[j] => i = j

SchedInit ==
  /\ \E n \in 0..Cardinality(Urls) :
       \E u \in [1..n -> Urls], w \in [1..n -> 0..MaxSchedWeight], kind \in SchedulerKinds :
         /\ Injective(u)
         /\ objs = [i \in 1..n |-> Backend(u[i], w[i])]
         /\ scheduler = SetBackends(kind, [i \in 1..n |-> i], objs)
  /\ scheduler_iter = FreshIter
  /\ backends = <<>>
  /\ source_hash = FALSE
  /\ held = [o \in Objs |-> 0]
  /\ last = Done("iter", None, NoError)
  /\ window = <<>>
  /\ nsteps = 0
  /\ request_times = <<>>
  /\ total_requests = <<>>
  /\ now = ClockTimes[1]
  /\ flap = [o \in Objs |-> ""]
  /\ loops = [k \in LoopKinds |-> NoLoop]
  /\ metrics = NewMetricsCollector
  /\ locks = [todo |-> [t \in 1..NumTasks |-> <<>>],
              owner |-> [l \in {"pool", "metrics"} |-> None],
              waiters |-> [l \in {"pool", "metrics"} |-> <<>>]]

\* it = iter(scheduler)
SchedIter ==
  /\ scheduler_iter' = FreshIter
  /\ nsteps' = 0
  /\ last' = Done("iter", None, NoError)
  /\ UNCHANGED <<objs, backends, scheduler, source_hash, held, window>>
  /\ UNCHANGED <<request_times, total_requests, now, flap, loops, metrics, locks>>

\* next(it); nsteps counts the backends this generator has yielded.
SchedStep ==
  /\ nsteps < MaxSteps
  /\ LET r == SchedulerNext(scheduler, scheduler_iter, objs)
     IN /\ scheduler_iter' = r.it
        /\ nsteps' = IF r.err = NoError THEN nsteps + 1 ELSE nsteps
        /\ last' = Done("next", r.ret, r.err)
  /\ UNCHANGED <<objs, backends, scheduler, source_hash, held, window>>
  /\ UNCHANGED <<request_times, total_requests, now, flap, loops, metrics, locks>>

\* Between two steps a backend's active_connections goes up (a select's
\* pre-increment) or down (a release).
SchedBump(o, d) ==
  /\ o \in DOMAIN objs
  /\ objs[o].active_connections + d \in 0..MaxConn
  /\ objs' = [objs EXCEPT ![o].active_connections = @ + d]
  /\ last' = Done("bump", None, NoError)
  /\ UNCHANGED <<backends, scheduler, scheduler_iter, source_hash, held, window, nsteps>>
  /\ UNCHANGED <<request_times, total_requests, now, flap, loops, metrics, locks>>

SchedNext ==
  \/ SchedIter
  \/ SchedStep
  \/ \E o \in 1..Cardinality(Urls), d \in {1, -1} : SchedBump(o, d)

SchedSpec == SchedInit /\ [][SchedNext]_vars

\* ------------------------------------------------------ statistics store
\* A Python dict as the sequence of its items in insertion order.
DictKeys(d) == {d[i].key : i \in 1..Len(d)}

DictGet(d, key, default) ==
  IF key \in DictKeys(d) THEN d[CHOOSE i \in 1..Len(d) : d[i].key = key].value ELSE default

\* d[key] = value: a present key keeps its place.
DictPut(d, key, value) ==
  IF key \in DictKeys(d)
  THEN [i \in 1..Len(d) |-> IF d[i].key = key THEN [key |-> key, value |-> value] ELSE d[i]]
  ELSE Append(d, [key |-> key, value |-> value])

RECURSIVE SumValues(_)
SumValues(d) == IF d = <<>> THEN 0 ELSE Head(d).value + SumValues(Tail(d))

\* The tokens offered to get_stats: the six of the period map and "all",
\* and one that is not known.
PeriodTokens == {"5m", "30m", "1h", "6h", "24h", "all", "7d"}

PeriodLists == UNION {[1..n -> PeriodTokens] : n \in 0..MaxPeriods}

\* A lookup that falls back to a day for a token not in the map.
ParsePeriodDefault(period) ==
  CASE period = "5m" -> 300 [] period = "30m" -> 1800 [] period = "1h" -> 3600
    [] period = "6h" -> 21600 [] OTHER -> 86400

\* BackendPool._parse_period: self._period_map.get(period).
ParsePeriod(period) ==
  CASE period = "5m" -> 300 [] period = "30m" -> 1800 [] period = "1h" -> 3600
    [] period = "6h" -> 21600 [] period = "24h" -> 86400 [] OTHER -> None

\* A count that leaves out a timestamp exactly at the cutoff.
CountSinceStrict(timestamps, cutoff) ==
  Cardinality({i \in 1..Len(timestamps) : timestamps[i] > cutoff})

\* sum(1 for ts in timestamps if ts >= cutoff)
CountSince(timestamps, cutoff) ==
  Cardinality({i \in 1..Len(timestamps) : timestamps[i] >= cutoff})

\* round(count / total * 100, 1) if total > 0 else 0, in tenths of a
\* percent.  The quotient is rounded to the nearest tenth; no tie arises
\* unless total is a multiple of 16.
Percentage(count, total) ==
  IF total > 0 THEN (2000 * count + total) \div (2 * total) ELSE 0

\* The "all" branch of get_stats: the cumulative counters, the percentages
\* over their sum.
AllEntry(tr) ==
  LET total == SumValues(tr)
  IN [total |-> total,
      backends |-> [i \in 1..Len(tr) |->
                      [key |-> tr[i].key,
                       value |-> [count |-> tr[i].value,
                                  percentage |-> Percentage(tr[i].value, total)]]]]

\* The finite-period branch of get_stats: the urls are visited in the
\* dict's order, total grows as they are visited and each percentage is
\* taken over the total reached so far.
PeriodEntry(rt, cutoff) ==
  LET F[i \in 0..Len(rt)] ==
        IF i = 0 THEN [total |-> 0, backends |-> <<>>]
        ELSE LET count == CountSince(rt[i].value, cutoff)
                 total == F[i - 1].total + count
             IN [total |-> total,
                 backends |-> IF count > 0
                              THEN DictPut(F[i - 1].backends, rt[i].key,
                                           [count |-> count, percentage |-> Percentage(count, total)])
                              ELSE F[i - 1].backends]
  IN F[Len(rt)]

\* BackendPool.get_stats at time t: the result dict.
GetStatsResult(periods, rt, tr, t) ==
  LET F[i \in 0..Len(periods)] ==
        IF i = 0 THEN <<>>
        ELSE IF periods[i] = "all" THEN DictPut(F[i - 1], "all", AllEntry(tr))
        ELSE IF ParsePeriod(periods[i]) = None THEN F[i - 1]
        ELSE DictPut(F[i - 1], periods[i], PeriodEntry(rt, t - ParsePeriod(periods[i])))
  IN F[Len(periods)]

\* BackendPool.record_request
record_request(st, url) ==
  LET rt0 == IF url \in DictKeys(st.request_times) THEN st.request_times
             ELSE DictPut(st.request_times, url, <<>>)
      rt == DictPut(rt0, url, Append(DictGet(rt0, url, <<>>), st.now))
      tr == DictPut(st.total_requests, url, DictGet(st.total_requests, url, 0) + 1)
  IN [st EXCEPT !.request_times = rt, !.total_requests = tr,
                !.last = DoneArg("record_request", url, None, NoError)]

RecordRequest(url) ==
  /\ SumValues(total_requests) < MaxRecords
  /\ Become(record_request(Cur, url))

\* BackendPool.get_stats; the periods asked for are kept as the string of
\* their tokens.
get_stats(st, periods) ==
  [st EXCEPT !.last = [Done("get_stats", None, NoError) EXCEPT
                         !.log = periods,
                         !.stats = GetStatsResult(periods, st.request_times,
                                                  st.total_requests, st.now)]]

GetStats(periods) ==
  /\ periods \in PeriodLists
  /\ Become(get_stats(Cur, periods))

\* A cleanup that also forgets the cumulative counters.
cleanup_and_reset(st) ==
  [st EXCEPT !.request_times = <<>>, !.total_requests = <<>>,
             !.last = Done("cleanup", None, NoError)]

\* A cleanup that also drops a timestamp exactly 24 hours old.
cleanup_strict(st) ==
  LET cutoff == st.now - 86400
      rt == st.request_times
  IN [st EXCEPT !.request_times =
                   [i \in 1..Len(rt) |->
                      [key |-> rt[i].key,
                       value |-> SelectSeq(rt[i].value, LAMBDA ts : ts > cutoff)]],
                !.last = Done("cleanup", None, NoError)]

\* BackendPool._cleanup_old_requests
cleanup_old_requests(st) ==
  LET cutoff == st.now - 86400
      rt == st.request_times
  IN [st EXCEPT !.request_times =
                   [i \in 1..Len(rt) |->
                      [key |-> rt[i].key,
                       value |-> SelectSeq(rt[i].value, LAMBDA ts : ts >= cutoff)]],
                !.last = Done("cleanup", None, NoError)]

\* One pass of BackendPool._cleanup_loop, which sleeps 3600 seconds before
\* each pass.
CleanupOldRequests ==
  /\ now - ClockTimes[1] >= 3600
  /\ Become(cleanup_old_requests(Cur))

\* time.time() gives its next reading.
Tick ==
  /\ \E i \in 1..MaxTicks :
       /\ ClockTimes[i] = now
       /\ Become([Cur EXCEPT !.now = ClockTimes[i + 1], !.last = Done("tick", None, NoError)])

\* The statistics store alone: requests are recorded as time passes, the
\* cleanup loop makes its passes and get_stats is asked for every list of up
\* to MaxPeriods tokens.
StatsNext ==
  \/ \E u \in PoolUrls : RecordRequest(u)
  \/ \E p \in PeriodLists : GetStats(p)
  \/ CleanupOldRequests
  \/ Tick

StatsSpec == Init /\ [][StatsNext]_vars

\* The statistics store next to the operations that change the pool's
\* membership, policy and health; a request is recorded under the url of a
\* backend of the pool, as proxy_handler records it.
CounterAlgos == {"least_conn", "source_hash"}

CountersNext ==
  \/ \E o \in Range(backends) : RecordRequest(objs[o].url)
  \/ GetStats(<<"all">>)
  \/ CleanupOldRequests
  \/ Tick
  \/ \E u \in PoolUrls : Add(u, 1)
  \/ \E u \in PoolUrls : Remove(u)
  \/ \E a \in CounterAlgos : SetScheduler(a)
  \/ \E o \in Objs, r \in ProbeOutcomes : HealthCheck(o, r)

CountersSpec == Init /\ [][CountersNext]_vars

\* ------------------------------------------------------------ application
\* The handlers of main.py over the pool, next to the health-check sweep.
\* A handler runs from one suspension to the next without interleaving: the
\* pool's lock is never held across a suspension, so no acquisition waits.
AppWeights == {1}

AppAlgos == {"round_robin", "source_hash", "random"}

\* How the upstream round trip of a proxied request ends: the response was
\* read, the request or the read raised, or the handler was cancelled.
UpstreamOutcomes == {"response", "upstream_error", "cancelled"}

\* proxy_handler up to the upstream request: select_backend() is called
\* whatever the policy and the client's ip; None is answered with 503, an
\* exception leaves the handler and the server answers 500.
proxy_dispatch(st, ip) ==
  LET s1 == select_backend(st)
      r == s1.last
  IN [s1 EXCEPT !.last = [r EXCEPT !.op = "proxy_dispatch", !.arg = ip,
                                   !.log = <<"select_backend">>,
                                   !.status = IF r.err # NoError THEN 500
                                              ELSE IF r.ret = None THEN 503 ELSE 0]]

ProxyDispatch(ip) ==
  /\ InFlight(held) < NumTasks
  /\ Become(Compact(proxy_dispatch(Cur, ip)))

\* A handler whose release is not in a finally block: it is skipped when the
\* round trip fails.
proxy_exit_no_finally(st, o, outcome) ==
  LET s1 == IF outcome = "response" THEN release(record_request(st, st.objs[o].url), o)
            ELSE [st EXCEPT !.held[o] = @ - 1, !.last = Done("release", o, NoError)]
  IN [s1 EXCEPT !.last = [s1.last EXCEPT
                            !.op = "proxy_exit", !.arg = outcome,
                            !.log = IF outcome = "response"
                                    THEN <<"select_backend", "record_request", "release">>
                                    ELSE <<"select_backend">>]]

\* proxy_handler from the end of the upstream round trip, for a request
\* that holds backend o: record_request after a response was read, then
\* release in the finally block on every path.  An exception of release
\* replaces the handler's response and the server answers 500.
proxy_exit(st, o, outcome) ==
  LET s1 == IF outcome = "response" THEN record_request(st, st.objs[o].url) ELSE st
      s2 == release(s1, o)
  IN [s2 EXCEPT !.last = [s2.last EXCEPT
                            !.op = "proxy_exit", !.arg = outcome,
                            !.log = <<"select_backend">>
                                      \o (IF outcome = "response" THEN <<"record_request">> ELSE <<>>)
                                      \o <<"release">>,
                            !.status = IF s2.last.err # NoError THEN 500
                                       ELSE CASE outcome = "response" -> 200
                                              [] outcome = "upstream_error" -> 502
                                              [] OTHER -> 0]]

ProxyExit(o, outcome) ==
  /\ held[o] > 0
  /\ outcome = "response" => SumValues(total_requests) < MaxRecords
  /\ Become(Compact(proxy_exit(Cur, o, outcome)))

\* The control handler set_algorithm: set_scheduler is awaited with no
\* try around it, so its ValueError leaves the handler and the server
\* answers 500.
set_algorithm(st, algo) ==
  LET s1 == set_scheduler(st, algo)
  IN [s1 EXCEPT !.flap = [o \in Objs |-> ""],
                !.last = [s1.last EXCEPT !.op = "set_algorithm", !.arg = algo,
                                         !.status = IF s1.last.err = NoError THEN 200 ELSE 500]]

SetAlgorithm(algo) ==
  /\ algo \in AppAlgos
  /\ Become(Compact(set_algorithm(Cur, algo)))

\* The control handlers add_backend and remove_backend.
add_backend(st, url, weight) ==
  LET s1 == add(st, url, weight)
  IN [s1 EXCEPT !.flap = [o \in Objs |-> ""],
                !.last = [s1.last EXCEPT !.op = "add_backend", !.arg = url, !.status = 200]]

AddBackend(url, weight) ==
  /\ Live(Cur) # Objs
  /\ Become(Compact(add_backend(Cur, url, weight)))

remove_backend(st, url) ==
  LET s1 == remove(st, url)
  IN [s1 EXCEPT !.flap = [o \in Objs |-> ""],
                !.last = [s1.last EXCEPT !.op = "remove_backend", !.arg = url, !.status = 200]]

RemoveBackend(url) ==
  /\ url \in PoolUrls
  /\ Become(Compact(remove_backend(Cur, url)))

\* One probe of the health-check sweep.  flap[o] remembers what the sweeps
\* did to o since the last add, remove or set_scheduler: "down" once a
\* probe took it from healthy to unhealthy, "up" once a later probe took it
\* back to healthy.
sweep_probe(st, o, outcome) ==
  LET s1 == health_check(st, o, outcome)
      was == st.objs[o].healthy
      is == s1.objs[o].healthy
  IN [s1 EXCEPT !.flap[o] = IF was = is THEN @
                            ELSE IF ~is THEN "down"
                            ELSE IF @ = "down" THEN "up" ELSE ""]

SweepProbe(o, outcome) ==
  /\ o \in Live(Cur)
  /\ Become(Compact(sweep_probe(Cur, o, outcome)))

AppNext ==
  \/ \E ip \in ClientIps : ProxyDispatch(ip)
  \/ \E o \in Objs, r \in UpstreamOutcomes : ProxyExit(o, r)
  \/ \E a \in AppAlgos : SetAlgorithm(a)
  \/ \E u \in PoolUrls, w \in AppWeights : AddBackend(u, w)
  \/ \E u \in PoolUrls : RemoveBackend(u)
  \/ \E o \in Objs, r \in ProbeOutcomes : SweepProbe(o, r)

AppSpec == Init /\ [][AppNext]_vars

\* ---------------------------------------------------------------------
\* The background loops: start_health_checks / stop_health_checks and
\* start_stats_cleanup / stop_stats_cleanup.  A start creates a loop task
\* only when the pool holds no handle.  A stop with a handle cancels the
\* task and suspends at `await task`; the cancelled task ends at its next
\* resumption and the stop call then resumes and clears the handle.  The
\* loops contain `while True` and catch every probe failure, so a loop
\* task ends only by cancellation.

\* At most one stop call per kind is suspended at a time, and a start is
\* explored while fewer than MaxLoopTasks tasks of its kind exist.
MaxLoopTasks == 2

\* The loop task is between two iterations and has not been cancelled.
LoopRuns(st, kind) == st.loops[kind].live > 0 /\ ~st.loops[kind].stopping

start_health_checks_unchecked(st) ==
  [st EXCEPT !.loops["health_check"] =
                [task |-> @.live + 1, live |-> @.live + 1, stopping |-> @.stopping],
             !.last = DoneArg("start_health_checks", "created", None, NoError)]

start_health_checks(st) ==
  IF st.loops["health_check"].task = None
  THEN [st EXCEPT !.loops["health_check"] =
                     [task |-> @.live + 1, live |-> @.live + 1, stopping |-> @.stopping],
                  !.last = DoneArg("start_health_checks", "created", None, NoError)]
  ELSE [st EXCEPT !.last = DoneArg("start_health_checks", "noop", None, NoError)]

StartHealthChecks ==
  /\ loops["health_check"].live < MaxLoopTasks
  /\ Become(Compact(start_health_checks(Cur)))

\* stop_health_checks up to its suspension at `await self._health_check_task`;
\* the whole call when there is no handle.
stop_health_checks(st) ==
  IF st.loops["health_check"].task # None
  THEN [st EXCEPT !.loops["health_check"].stopping = TRUE,
                  !.last = DoneArg("stop_health_checks", "awaiting", None, NoError)]
  ELSE [st EXCEPT !.last = DoneArg("stop_health_checks", "noop", None, NoError)]

StopHealthChecks ==
  /\ ~loops["health_check"].stopping
  /\ Become(Compact(stop_health_checks(Cur)))

\* The cancelled loop task ends; the stop call catches CancelledError and
\* sets the handle to None.
stop_health_checks_resume(st) ==
  [st EXCEPT !.loops["health_check"] =
                [task |-> None, live |-> @.live - 1, stopping |-> FALSE],
             !.last = DoneArg("stop_health_checks", "cancelled", None, NoError)]

StopHealthChecksResume ==
  /\ loops["health_check"].stopping
  /\ Become(Compact(stop_health_checks_resume(Cur)))

start_stats_cleanup(st) ==
  IF st.loops["cleanup"].task = None
  THEN [st EXCEPT !.loops["cleanup"] =
                     [task |-> @.live + 1, live |-> @.live + 1, stopping |-> @.stopping],
                  !.last = DoneArg("start_stats_cleanup", "created", None, NoError)]
  ELSE [st EXCEPT !.last = DoneArg("start_stats_cleanup", "noop", None, NoError)]

StartStatsCleanup ==
  /\ loops["cleanup"].live < MaxLoopTasks
  /\ Become(Compact(start_stats_cleanup(Cur)))

stop_stats_cleanup(st) ==
  IF st.loops["cleanup"].task # None
  THEN [st EXCEPT !.loops["cleanup"].stopping = TRUE,
                  !.last = DoneArg("stop_stats_cleanup", "awaiting", None, NoError)]
  ELSE [st EXCEPT !.last = DoneArg("stop_stats_cleanup", "noop", None, NoError)]

StopStatsCleanup ==
  /\ ~loops["cleanup"].stopping
  /\ Become(Compact(stop_stats_cleanup(Cur)))

stop_stats_cleanup_resume(st) ==
  [st EXCEPT !.loops["cleanup"] =
                [task |-> None, live |-> @.live - 1, stopping |-> FALSE],
             !.last = DoneArg("stop_stats_cleanup", "cancelled", None, NoError)]

StopStatsCleanupResume ==
  /\ loops["cleanup"].stopping
  /\ Become(Compact(stop_stats_cleanup_resume(Cur)))

\* One probe of a sweep of the health check loop.
HealthCheckLoop(o, outcome) ==
  /\ LoopRuns(Cur, "health_check")
  /\ HealthCheck(o, outcome)

\* One pass of the cleanup loop.
CleanupLoop ==
  /\ LoopRuns(Cur, "cleanup")
  /\ CleanupOldRequests

LoopNext ==
  \/ StartHealthChecks
  \/ StopHealthChecks
  \/ StopHealthChecksResume
  \/ StartStatsCleanup
  \/ StopStatsCleanup
  \/ StopStatsCleanupResume
  \/ \E o \in Objs, r \in ProbeOutcomes : HealthCheckLoop(o, r)
  \/ CleanupLoop
  \/ Tick
  \/ \E u \in PoolUrls : Add(u, 1)

LoopSpec == Init /\ [][LoopNext]_vars

\* ---------------------------------------------------------------------
\* The metrics registry (MetricsCollector).  A family is a dict from metric
\* name to a dict from label key to the metric; a labels dict is the
\* sequence of its items in insertion order.

MaxEntries == 2
MaxCount == 2
MaxSamples == 1

\* The label names in string order.
LabelNames == <<"backend", "status">>

LabelRank(k) == CHOOSE i \in 1..Len(LabelNames) : LabelNames[i] = k

Item(k, v) == [k |-> k, v |-> v]

\* The labels dicts offered to the registry: none, one label, and the same
\* two labels written in both orders.
LabelInputs ==
  { <<>>,
    <<Item("backend", "b1")>>,
    <<Item("backend", "b1"), Item("status", "200")>>,
    <<Item("status", "200"), Item("backend", "b1")>> }

CounterNames == {"backend.requests.total", "backend.errors.total"}

make_labels_key_unsorted(labels) == labels

\* tuple(sorted(labels.items())): the items ordered by label name.
make_labels_key(labels) ==
  LET n == Len(labels)
      pos(i) == Cardinality({j \in 1..n : LabelRank(labels[j].k) < LabelRank(labels[i].k)}) + 1
  IN [p \in 1..n |-> labels[CHOOSE i \in 1..n : pos(i) = p]]

\* family[name][key] of a defaultdict of defaultdicts, and its assignment.
FamilyGet(fam, name, key, default) == DictGet(DictGet(fam, name, <<>>), key, default)

FamilyPut(fam, name, key, value) ==
  DictPut(fam, name, DictPut(DictGet(fam, name, <<>>), key, value))

RECURSIVE FamilySize(_)
FamilySize(fam) == IF fam = <<>> THEN 0 ELSE Len(Head(fam).value) + FamilySize(Tail(fam))

Entries(m) == FamilySize(m.counters) + FamilySize(m.histograms) + FamilySize(m.gauges)

\* A metric is created by the first operation that names its key.
Room(m, fam, name, labels) ==
  \/ make_labels_key(labels) \in DictKeys(DictGet(fam, name, <<>>))
  \/ Entries(m) < MaxEntries

NewHistogram == [values |-> <<>>, sum |-> 0, count |-> 0]

increment_counter(st, name, labels, value) ==
  LET key == make_labels_key(labels)
  IN [st EXCEPT !.metrics.counters = FamilyPut(@, name, key, FamilyGet(@, name, key, 0) + value),
                !.last = [Done("increment_counter", None, NoError) EXCEPT !.arg = name, !.log = labels]]

IncrementCounter(name, labels, value) ==
  /\ Room(metrics, metrics.counters, name, labels)
  /\ FamilyGet(metrics.counters, name, make_labels_key(labels), 0) + value \in (0 - MaxCount)..MaxCount
  /\ Become(increment_counter(Cur, name, labels, value))

record_histogram(st, name, value, labels) ==
  LET key == make_labels_key(labels)
      h == FamilyGet(st.metrics.histograms, name, key, NewHistogram)
  IN [st EXCEPT !.metrics.histograms =
                   FamilyPut(@, name, key, [values |-> Append(h.values, value),
                                            sum |-> h.sum + value,
                                            count |-> h.count + 1]),
                !.last = [Done("record_histogram", None, NoError) EXCEPT !.arg = name, !.log = labels]]

RecordHistogram(name, value, labels) ==
  /\ Room(metrics, metrics.histograms, name, labels)
  /\ FamilyGet(metrics.histograms, name, make_labels_key(labels), NewHistogram).count < MaxSamples
  /\ Become(record_histogram(Cur, name, value, labels))

set_gauge(st, name, value, labels) ==
  LET key == make_labels_key(labels)
  IN [st EXCEPT !.metrics.gauges = FamilyPut(@, name, key, value),
                !.last = [Done("set_gauge", None, NoError) EXCEPT !.arg = name, !.log = labels]]

SetGauge(name, value, labels) ==
  /\ Room(metrics, metrics.gauges, name, labels)
  /\ Become(set_gauge(Cur, name, value, labels))

\* Histogram.percentiles: sorted(values)[min(int(len * p / 100), len - 1)],
\* 0.0 for every percentile of an empty histogram.
SortedValues(values) ==
  LET n == Len(values)
      pos(i) == Cardinality({j \in 1..n : values[j] < values[i] \/ (values[j] = values[i] /\ j < i)}) + 1
  IN [p \in 1..n |-> values[CHOOSE i \in 1..n : pos(i) = p]]

Percentile(values, p) ==
  IF values = <<>> THEN 0
  ELSE LET n == Len(values)
           idx == (n * p) \div 100
       IN SortedValues(values)[(IF idx < n - 1 THEN idx ELSE n - 1) + 1]

HistogramView(h) ==
  [count |-> h.count,
   sum |-> h.sum,
   min |-> IF h.values = <<>> THEN 0 ELSE SortedValues(h.values)[1],
   max |-> IF h.values = <<>> THEN 0 ELSE SortedValues(h.values)[Len(h.values)],
   p50 |-> Percentile(h.values, 50),
   p90 |-> Percentile(h.values, 90),
   p95 |-> Percentile(h.values, 95),
   p99 |-> Percentile(h.values, 99)]

\* dict(labels): the dict of a key's items.  A dict is not hashable, a
\* tuple of strings is.
DictOfItems(key) == [type |-> "dict", items |-> key]

Hashable(x) == x.type # "dict"

\* result[family][name] = {} and then result[family][name][dict(labels)] =
\* view, for every name and every labels key in insertion order.
FamilyView(fam, summary) ==
  [i \in 1..Len(fam) |->
     [key |-> fam[i].key,
      value |-> [j \in 1..Len(fam[i].value) |->
                   [key |-> DictOfItems(fam[i].value[j].key),
                    value |-> IF summary THEN HistogramView(fam[i].value[j].value)
                              ELSE fam[i].value[j].value]]]]

\* The exception of the first item assignment that fails, if any.
SetItemErrors(view) ==
  {"TypeError" : i \in {i \in 1..Len(view) :
                          \E j \in 1..Len(view[i].value) : ~Hashable(view[i].value[j].key)}}

get_metrics(st) ==
  LET result == [counters |-> FamilyView(st.metrics.counters, FALSE),
                 histograms |-> FamilyView(st.metrics.histograms, TRUE),
                 gauges |-> FamilyView(st.metrics.gauges, FALSE)]
      errs == SetItemErrors(result.counters) \cup SetItemErrors(result.histograms)
                \cup SetItemErrors(result.gauges)
  IN IF errs # {}
     THEN [st EXCEPT !.last = Done("get_metrics", None, CHOOSE e \in errs : TRUE)]
     ELSE [st EXCEPT !.last = [Done("get_metrics", None, NoError) EXCEPT !.stats = <<result>>]]

GetMetrics ==
  /\ Entries(metrics) <= MaxEntries
  /\ Become(get_metrics(Cur))

reset(st) ==
  [st EXCEPT !.metrics = [counters |-> <<>>, histograms |-> <<>>, gauges |-> <<>>],
             !.last = Done("reset", None, NoError)]

Reset ==
  /\ Entries(metrics) <= MaxEntries
  /\ Become(reset(Cur))

MetricsNext ==
  \/ \E n \in CounterNames, l \in LabelInputs, v \in {1, 0 - 1} : IncrementCounter(n, l, v)
  \/ \E l \in LabelInputs : RecordHistogram("backend.latency.ms", 5, l)
  \/ \E v \in {0, 1}, l \in LabelInputs : SetGauge("backend.active_connections", v, l)
  \/ GetMetrics
  \/ Reset

MetricsSpec == Init /\ [][MetricsNext]_vars

\* ---------------------------------------------------------------------
\* Locking.  Each operation of the pool is followed through its lock
\* acquisitions, its writes and its metric emissions, in program order;
\* the sequence is kept in last.events.  The pool lock is taken by
\* `async with self._lock`, the metrics lock inside the MetricsCollector
\* call; both are released when the block is left, by return or exception.

Traced(st, events) == [st EXCEPT !.last.events = events]

\* async with self._lock: body
PoolLocked(body) == <<"pool.acquire">> \o body \o <<"pool.release">>

\* await self.metrics.set_gauge(...): the registry takes its own lock.
GaugeEmission == <<"metrics.acquire", "write gauge", "metrics.release">>

\* _rebuild_scheduler: scheduler.set_backends(...) and a new iterator.
RebuildEvents == <<"write scheduler", "write scheduler_iter">>

\* add and remove: the map is written and the scheduler rebuilt.
membership_events == PoolLocked(<<"write backends">> \o RebuildEvents)

set_scheduler_events(algo) ==
  <<"write source_hash">>
    \o (IF algo = "source_hash" THEN <<"write source_hash">>
        ELSE IF algo \in Algos THEN <<"write scheduler">>
        ELSE <<"raise">>)
    \o (IF algo \in Algos THEN RebuildEvents ELSE <<>>)

select_backend_events(st) ==
  LET cur == IF st.scheduler_iter.state = "none"
             THEN RebuildScheduler(st.backends, st.scheduler, st.objs)
             ELSE [scheduler |-> st.scheduler, iter |-> st.scheduler_iter]
      r1 == SchedulerNext(cur.scheduler, cur.iter, st.objs)
      r == SelectOutcome(st.backends, st.scheduler, st.scheduler_iter, st.objs)
  IN PoolLocked(
       IF HealthyBackends(st.backends, st.objs) = <<>> THEN <<>>
       ELSE (IF st.scheduler_iter.state = "none" THEN RebuildEvents ELSE <<>>)
              \o (IF r1.err = "StopIteration" THEN RebuildEvents ELSE <<>>)
              \o (IF r.err = NoError
                  THEN <<"write active_connections">> \o GaugeEmission
                  ELSE <<"raise">>))

select_backend_by_ip_events(st) ==
  PoolLocked(
    IF HealthyBackends(st.backends, st.objs) = <<>> THEN <<>>
    ELSE <<"write active_connections">> \o GaugeEmission)

release_events(st, o) ==
  IF HasAttr(st.objs[o], "total_requests")
  THEN PoolLocked(<<"write active_connections", "write total_requests">>) \o GaugeEmission
  ELSE PoolLocked(<<"write active_connections", "raise">>)

record_request_events == PoolLocked(<<"write request_times", "write total_requests">>)

get_stats_events == PoolLocked(<<>>)

show_events == PoolLocked(<<>>)

\* One probe: the healthy bit is assigned after the response or in the
\* except branch, then the histogram and the counters are emitted.  The
\* sweep took and released the pool lock for its snapshot before the first
\* probe.
health_check_events(outcome) ==
  LET emission == <<"metrics.acquire", "write metric", "metrics.release">>
  IN <<"write healthy">> \o emission \o emission
       \o (IF outcome = "exception" THEN emission ELSE <<>>)

\* BackendPool.show: weight, active_connections and healthy of every url
\* of the map, in insertion order.
show(st) ==
  [st EXCEPT !.last =
     [Done("show", None, NoError) EXCEPT
        !.stats = [i \in 1..Len(st.backends) |->
                     [key |-> st.objs[st.backends[i]].url,
                      value |-> [weight |-> st.objs[st.backends[i]].weight,
                                 active_connections |-> st.objs[st.backends[i]].active_connections,
                                 healthy |-> st.objs[st.backends[i]].healthy]]]]]

Show ==
  /\ Len(backends) <= Cardinality(PoolUrls)
  /\ Become(Compact(Traced(show(Cur), show_events)))

TracedAdd(url, weight) ==
  /\ Live(Cur) # Objs
  /\ Become(Compact(Traced(add(Cur, url, weight), membership_events)))

TracedRemove(url) ==
  /\ url \in PoolUrls
  /\ Become(Compact(Traced(remove(Cur, url), membership_events)))

TracedSetScheduler(algo) ==
  /\ algo \in AlgoInputs
  /\ Become(Compact(Traced(set_scheduler(Cur, algo), set_scheduler_events(algo))))

TracedSelectBackend ==
  /\ InFlight(held) < NumTasks
  /\ Become(Compact(Traced(select_backend(Cur), select_backend_events(Cur))))

TracedSelectBackendByIp(ip) ==
  /\ InFlight(held) < NumTasks
  /\ Become(Compact(Traced(select_backend_by_ip(Cur, ip), select_backend_by_ip_events(Cur))))

TracedRelease(o) ==
  /\ held[o] > 0
  /\ Become(Compact(Traced(release(Cur, o), release_events(Cur, o))))

TracedRecordRequest(url) ==
  /\ SumValues(total_requests) < MaxRecords
  /\ Become(Traced(record_request(Cur, url), record_request_events))

TracedGetStats(periods) ==
  /\ periods \in PeriodLists
  /\ Become(Traced(get_stats(Cur, periods), get_stats_events))

TracedHealthCheck(o, outcome) ==
  /\ o \in Live(Cur)
  /\ Become(Compact(Traced(health_check(Cur, o, outcome), health_check_events(outcome))))

LockNext ==
  \/ \E u \in PoolUrls : TracedAdd(u, 1)
  \/ \E u \in PoolUrls : TracedRemove(u)
  \/ \E a \in AppAlgos : TracedSetScheduler(a)
  \/ TracedSelectBackend
  \/ \E ip \in ClientIps : TracedSelectBackendByIp(ip)
  \/ \E o \in Objs : TracedRelease(o)
  \/ \E o \in Range(backends) : TracedRecordRequest(objs[o].url)
  \/ TracedGetStats(<<"all">>)
  \/ Show
  \/ \E o \in Objs, r \in ProbeOutcomes : TracedHealthCheck(o, r)

LockSpec == Init /\ [][LockNext]_vars

\* ---------------------------------------------------------------------
\* The two locks under contention.  A task runs one operation at a time
\* and goes through the lock events of the operation one by one; tasks
\* interleave at every event.  Both locks are asyncio.Lock objects: an
\* acquire takes a free lock that nobody waits for, and otherwise queues;
\* a release frees the lock, which goes to the first of the queue.

\* The acquisitions and releases among the events of an operation.
LockEvents(events) ==
  SelectSeq(events, LAMBDA e : e \in {"pool.acquire", "pool.release",
                                      "metrics.acquire", "metrics.release"})

\* A pair of operations that take the two locks in opposite orders.
LockProgramsOpposite ==
  {<<"pool.acquire", "metrics.acquire", "metrics.release", "pool.release">>,
   <<"metrics.acquire", "pool.acquire", "pool.release", "metrics.release">>}

\* The lock events of every operation of the pool and of the registry:
\* add, remove, set_scheduler, record_request, get_stats, show, the cleanup
\* pass, the snapshot and the probes of a health sweep, the two selects and
\* release on a pool without and with a backend, and the registry calls,
\* which all have the shape of set_gauge.
LockPrograms ==
  LET pools == {Cur, Compact(add(Cur, "b1", 1))}
      traces ==
        {membership_events, record_request_events, get_stats_events, show_events,
         PoolLocked(<<"write request_times">>), PoolLocked(<<>>), GaugeEmission}
          \cup {set_scheduler_events(a) : a \in AlgoInputs}
          \cup {health_check_events(r) : r \in ProbeOutcomes}
          \cup {select_backend_events(st) : st \in pools}
          \cup {select_backend_by_ip_events(st) : st \in pools}
          \cup {release_events(Compact(add(Cur, "b1", 1)), 1)}
  IN {LockEvents(tr) : tr \in traces}

\* Task t starts an operation.
BeginOperation(t, program) ==
  /\ locks.todo[t] = <<>>
  /\ program # <<>>
  /\ Become([Cur EXCEPT !.locks.todo[t] = program])

\* `async with lock` is entered: the lock is taken, or the task queues.
AcquireLock(t, l) ==
  /\ locks.todo[t] # <<>>
  /\ Head(locks.todo[t]) = l \o ".acquire"
  /\ t \notin Range(locks.waiters[l])
  /\ IF locks.owner[l] = None /\ locks.waiters[l] = <<>>
     THEN Become([Cur EXCEPT !.locks.owner[l] = t, !.locks.todo[t] = Tail(@)])
     ELSE Become([Cur EXCEPT !.locks.waiters[l] = Append(@, t)])

\* The first task of the queue gets the freed lock.
WakeWaiter(t, l) ==
  /\ locks.waiters[l] # <<>>
  /\ Head(locks.waiters[l]) = t
  /\ locks.owner[l] = None
  /\ Become([Cur EXCEPT !.locks.owner[l] = t, !.locks.waiters[l] = Tail(@),
                         !.locks.todo[t] = Tail(@)])

\* The `async with` block is left.
ReleaseLock(t, l) ==
  /\ locks.todo[t] # <<>>
  /\ Head(locks.todo[t]) = l \o ".release"
  /\ Become([Cur EXCEPT !.locks.owner[l] = None, !.locks.todo[t] = Tail(@)])

\* The step of task t in the operation it has begun.
TaskStep(t) ==
  \E l \in {"pool", "metrics"} : AcquireLock(t, l) \/ WakeWaiter(t, l) \/ ReleaseLock(t, l)

ContentionNext ==
  \/ \E t \in 1..NumTasks, program \in LockPrograms : BeginOperation(t, program)
  \/ \E t \in 1..NumTasks, l \in {"pool", "metrics"} : AcquireLock(t, l)
  \/ \E t \in 1..NumTasks, l \in {"pool", "metrics"} : WakeWaiter(t, l)
  \/ \E t \in 1..NumTasks, l \in {"pool", "metrics"} : ReleaseLock(t, l)

\* The event loop runs every task that can run: each task's step is
\* weakly fair.  Nothing obliges a task to begin another operation.
ContentionSpec ==
  Init /\ [][ContentionNext]_vars /\ \A t \in 1..NumTasks : WF_vars(TaskStep(t))

\* ---------------------------------------------------------------- claims
Healthy == HealthyBackends(backends, objs)

\* C1: whenever select_backend returns a backend, that backend's healthy bit
\* is true at the moment of the call.
C1_SelectReturnsHealthy ==
  (last.op = "select_backend" /\ last.err = NoError /\ last.ret # None)
    => objs[last.ret].healthy

\* C2: select_backend never raises, whatever the policy and the weights: it
\* returns a backend or none.
C2_SelectNeverRaises == last.op = "select_backend" => last.err = NoError

\* C3: a release that follows its select completes normally, leaves
\* active_connections at the number of requests still in flight on the
\* backend and counts the request in the backend's total_requests.
C3_ReleaseBalances ==
  last.op = "release" =>
    /\ last.err = NoError
    /\ HasAttr(objs[last.ret], "total_requests")
    /\ objs[last.ret].active_connections = held[last.ret]

\* C4: active_connections of every backend object is never negative, under
\* any interleaving of requests (select, then one release of the backend
\* given) with add, remove, set_scheduler and health-check probes.
C4_ActiveConnectionsNonNegative == \A o \in Objs : objs[o].active_connections >= 0

\* C4 witness: a request released a backend that was removed from the pool
\* while the request was in flight, and the backend's counter is back at 0.
C4_Witness ==
  /\ last.op = "release"
  /\ last.ret \notin Range(backends)
  /\ objs[last.ret].active_connections = 0

\* C5: under round_robin with k >= 1 healthy backends, k consecutive
\* select_backend calls with no membership or health change in between
\* return each healthy backend exactly once.
C5_RoundRobinWindow ==
  LET k == Len(Healthy)
      n == Len(window)
  IN (RoundRobinActive(Cur) /\ k >= 1 /\ n >= k)
       => {window[i] : i \in (n - k + 1)..n} = Range(Healthy)

\* The configuration list of the scheduler harness: every constructed
\* backend, in construction order.
Configured == 1..Len(objs)

\* C6: a RoundRobinScheduler configured with b_0..b_{k-1} yields b_{i mod k}
\* on its i-th step, whatever the backends' fields are.
C6_RoundRobinOrder ==
  (scheduler.kind = "round_robin" /\ last.op = "next" /\ Configured # {})
    => /\ last.err = NoError
       /\ last.ret = ((nsteps - 1) % Len(objs)) + 1

\* C6 witness: the cursor has wrapped around three backends whose
\* active_connections differ.
C6_Witness ==
  /\ scheduler.kind = "round_robin"
  /\ last.op = "next"
  /\ Len(objs) = 3
  /\ nsteps > 3
  /\ \E o, p \in Configured : objs[o].active_connections # objs[p].active_connections

\* Sum of the weights of the first i configured backends.
RECURSIVE WeightUpTo(_)
WeightUpTo(i) == IF i = 0 THEN 0 ELSE objs[i].weight + WeightUpTo(i - 1)

\* C7: a WeightedRoundRobinScheduler cycles the repetition list in which b_i
\* takes w_i consecutive places in configuration order: its p-th yield of a
\* period is the b_i with w_1+..+w_{i-1} < p <= w_1+..+w_i, so that a period
\* holds b_i exactly w_i times and a backend of weight 0 never.
C7_WeightedCycle ==
  LET total == WeightUpTo(Len(objs))
      p == ((nsteps - 1) % total) + 1
  IN (scheduler.kind = "weighted" /\ last.op = "next" /\ total > 0)
       => /\ last.err = NoError
          /\ last.ret \in Configured
          /\ WeightUpTo(last.ret - 1) < p
          /\ p <= WeightUpTo(last.ret)

\* C7 witness: weights [2, 1], six yields, the sixth being the second
\* backend.
C7_Witness ==
  /\ scheduler.kind = "weighted"
  /\ last.op = "next"
  /\ Len(objs) = 2
  /\ objs[1].weight = 2
  /\ objs[2].weight = 1
  /\ nsteps = 6
  /\ last.ret = 2

\* C8: every least_conn step returns a backend with the least
\* active_connections among the configured ones, and of those the one with
\* the smallest url.
C8_LeastConnections ==
  (scheduler.kind = "least_conn" /\ last.op = "next" /\ Configured # {})
    => /\ last.err = NoError
       /\ last.ret \in Configured
       /\ \A o \in Configured \ {last.ret} :
            \/ objs[last.ret].active_connections < objs[o].active_connections
            \/ /\ objs[last.ret].active_connections = objs[o].active_connections
               /\ UrlRank(objs[last.ret].url) < UrlRank(objs[o].url)

\* C8 witness: after counters changed between steps, the backend returned
\* ties with one configured before it and beats one with more connections.
C8_Witness ==
  /\ scheduler.kind = "least_conn"
  /\ last.op = "next"
  /\ nsteps >= 2
  /\ last.ret \in Configured
  /\ \E o \in Configured : o < last.ret /\ objs[o].active_connections = objs[last.ret].active_connections
  /\ \E o \in Configured : objs[o].active_connections > objs[last.ret].active_connections

\* C9: every weighted_least_conn step returns, among the configured backends
\* of weight > 0, one with the least active_connections / weight (compared
\* exactly), and of those the one with the smallest url; a backend of weight
\* 0 is never returned.
C9_WeightedLeastConnections ==
  (scheduler.kind = "weighted_least_conn" /\ last.op = "next")
    => IF \A o \in Configured : objs[o].weight = 0
       THEN last.err = "StopIteration" /\ last.ret = None
       ELSE /\ last.err = NoError
            /\ last.ret \in Configured
            /\ objs[last.ret].weight > 0
            /\ \A o \in Configured \ {last.ret} :
                 \/ objs[o].weight = 0
                 \/ objs[last.ret].active_connections * objs[o].weight
                      < objs[o].active_connections * objs[last.ret].weight
                 \/ /\ objs[last.ret].active_connections * objs[o].weight
                         = objs[o].active_connections * objs[last.ret].weight
                    /\ UrlRank(objs[last.ret].url) < UrlRank(objs[o].url)

\* C9 witness: the backend returned has as many connections as a lighter
\* backend with a smaller url, and an idle backend of weight 0 is passed
\* over.
C9_Witness ==
  /\ scheduler.kind = "weighted_least_conn"
  /\ last.op = "next"
  /\ last.ret \in Configured
  /\ objs[last.ret].active_connections = 1
  /\ objs[last.ret].weight = 2
  /\ \E o \in Configured : /\ objs[o].weight = 1
                           /\ objs[o].active_connections = 1
                           /\ UrlRank(objs[o].url) < UrlRank(objs[last.ret].url)
  /\ \E o \in Configured : objs[o].weight = 0 /\ objs[o].active_connections = 0

\* C10: under least_requests, select_backend on a pool with a healthy
\* backend returns the healthy backend with the least total_requests, the
\* smallest url among equals.
C10_LeastRequests ==
  (last.op = "select_backend" /\ scheduler.kind = "least_requests" /\ Healthy # <<>>)
    => /\ last.err = NoError
       /\ last.ret \in Range(Healthy)
       /\ \A o \in Range(Healthy) : HasAttr(objs[o], "total_requests")
       /\ \A o \in Range(Healthy) \ {last.ret} :
            \/ objs[last.ret].total_requests < objs[o].total_requests
            \/ /\ objs[last.ret].total_requests = objs[o].total_requests
               /\ UrlRank(objs[last.ret].url) < UrlRank(objs[o].url)

\* C11: select_backend_by_ip(ip) returns the healthy backend at index
\* md5(ip) mod n of the n healthy backends sorted by url (none when n = 0),
\* which depends on the ip and the set of healthy urls only: not on earlier
\* selects and releases, on active_connections or on insertion order.
C11_SourceHashDeterministic ==
  last.op = "select_backend_by_ip" =>
    /\ last.err = NoError
    /\ IF Healthy = <<>> THEN last.ret = None
       ELSE /\ last.ret \in Range(Healthy)
            /\ Cardinality({o \in Range(Healthy) :
                               UrlRank(objs[o].url) < UrlRank(objs[last.ret].url)})
                 = Md5Mod2520(last.arg) % Len(Healthy)

\* C11 witness: b2 was added before b1, both are healthy, and the ip whose
\* digest is odd got b2 for the second time in a row.
C11_Witness ==
  /\ last.op = "select_backend_by_ip"
  /\ last.arg = "10.0.0.4"
  /\ Len(Healthy) = 2
  /\ objs[backends[1]].url = "b2"
  /\ last.ret # None
  /\ objs[last.ret].url = "b2"
  /\ objs[last.ret].active_connections = 2

\* C12: under round_robin, a backend of the pool that a sweep marked
\* unhealthy and a later sweep marked healthy again, with no add, remove or
\* set_scheduler in between, is returned by select_backend within as many
\* consecutive calls after the second sweep as the pool can hold backends.
C12_HealthRecovery ==
  (RoundRobinActive(Cur) /\ Len(window) >= Cardinality(PoolUrls))
    => \A o \in Range(backends) : flap[o] = "up" => o \in Range(window)

\* C13: a proxied request that got a backend calls release exactly once, as
\* its last pool call and on the backend it holds, on the success path and
\* on every failure path; record_request is called on the success path
\* only, before release; a request that got none calls neither.
C13_ReleaseOnEveryPath ==
  /\ (last.op = "proxy_dispatch" /\ last.ret = None) => last.log = <<"select_backend">>
  /\ last.op = "proxy_exit" =>
       /\ Cardinality({i \in 1..Len(last.log) : last.log[i] = "release"}) = 1
       /\ last.log[Len(last.log)] = "release"
       /\ ("record_request" \in Range(last.log)) <=> (last.arg = "response")
       /\ objs[last.ret].active_connections = held[last.ret]

\* C13 witness: a request whose round trip failed has released a backend
\* that another request still holds.
C13_Witness ==
  /\ last.op = "proxy_exit"
  /\ last.arg = "upstream_error"
  /\ last.log = <<"select_backend", "release">>
  /\ held[last.ret] = 1

\* C14: while source_hash is in effect, a proxied request from ip goes to
\* the backend select_backend_by_ip(ip) gives: the healthy backend at index
\* md5(ip) mod n in url order.
C14_ProxyUsesSourceHash ==
  (last.op = "proxy_dispatch" /\ source_hash /\ Healthy # <<>>)
    => /\ last.err = NoError
       /\ last.ret \in Range(Healthy)
       /\ Cardinality({o \in Range(Healthy) :
                          UrlRank(objs[o].url) < UrlRank(objs[last.ret].url)})
            = Md5Mod2520(last.arg) % Len(Healthy)

\* C15: the control handler answers a request for an unknown algorithm
\* with a 4xx status.
C15_UnknownAlgorithmIs400 ==
  (last.op = "set_algorithm" /\ last.arg \notin Algos) => last.status \in 400..499

\* The finite period tokens and all the known ones.
FinitePeriods == {"5m", "30m", "1h", "6h", "24h"}

KnownPeriods == FinitePeriods \cup {"all"}

\* The recorded timestamps, as (position of the url, position in its list).
Recorded == {p \in (1..Len(request_times)) \X (1..MaxRecords + 1) :
               p[2] <= Len(request_times[p[1]].value)}

\* Those of the last P seconds.
InWindow(P) == {p \in Recorded : request_times[p[1]].value[p[2]] >= now - P}

\* C16: for a finite period of P seconds, get_stats reports for each url the
\* number of its timestamps t >= now - P, as total the number of all such
\* timestamps, and leaves out exactly the urls that have none.
C16_WindowCounts ==
  last.op = "get_stats" =>
    \A k \in DictKeys(last.stats) \cap FinitePeriods :
      LET e == DictGet(last.stats, k, <<>>)
          W == InWindow(ParsePeriod(k))
      IN /\ e.total = Cardinality(W)
         /\ DictKeys(e.backends) = {request_times[p[1]].key : p \in W}
         /\ \A i \in 1..Len(request_times) :
              request_times[i].key \in DictKeys(e.backends) =>
                DictGet(e.backends, request_times[i].key, <<>>).count
                  = Cardinality({p \in W : p[1] = i})

\* C16 witness: b1 recorded at 0 and b2 at 400, asked at 700 for "5m": the
\* total is 1, b2's timestamp lies exactly on the cutoff and b1 is left out.
C16_Witness ==
  /\ last.op = "get_stats"
  /\ now = 700
  /\ request_times = <<[key |-> "b1", value |-> <<0>>], [key |-> "b2", value |-> <<400>>]>>
  /\ "5m" \in DictKeys(last.stats)
  /\ DictGet(last.stats, "5m", <<>>).total = 1
  /\ DictKeys(DictGet(last.stats, "5m", <<>>).backends) = {"b2"}

\* C17: for a finite period, the percentage reported for a url is its count
\* over the period's final total, times 100, to one decimal.
C17_PercentageOfFinalTotal ==
  last.op = "get_stats" =>
    \A k \in DictKeys(last.stats) \cap FinitePeriods :
      LET e == DictGet(last.stats, k, <<>>)
      IN \A i \in 1..Len(e.backends) :
           e.backends[i].value.percentage = Percentage(e.backends[i].value.count, e.total)

\* C18: get_stats raises nothing, the keys of its result are the requested
\* tokens that are known, and the entry of a known token is what asking for
\* that token alone gives.
C18_UnknownTokensSkipped ==
  last.op = "get_stats" =>
    /\ last.err = NoError
    /\ DictKeys(last.stats) = Range(last.log) \cap KnownPeriods
    /\ \A k \in DictKeys(last.stats) :
         DictGet(last.stats, k, <<>>)
           = DictGet(GetStatsResult(<<k>>, request_times, total_requests, now), k, <<>>)

\* C18 witness: an unknown token was asked for before a known one, with a
\* request in the known one's window.
C18_Witness ==
  /\ last.op = "get_stats"
  /\ last.log = <<"7d", "5m">>
  /\ DictKeys(last.stats) = {"5m"}
  /\ DictGet(last.stats, "5m", <<>>).total = 1

\* C19: a cleanup pass at time now leaves, for every url and in the same
\* order, exactly the timestamps t >= now - 86400 that the url's list held.
C19_CleanupKeepsLastDay ==
  [][last'.op = "cleanup" =>
       /\ now' = now
       /\ Len(request_times') = Len(request_times)
       /\ \A i \in 1..Len(request_times) :
            /\ request_times'[i].key = request_times[i].key
            /\ \A j \in 1..Len(request_times'[i].value) :
                 request_times'[i].value[j] >= now - 86400
            /\ request_times'[i].value
                 = SelectSeq(request_times[i].value, LAMBDA t : t >= now - 86400)]_vars

\* C19 witness: a pass has dropped b1's only timestamp and kept b2's, which
\* is exactly 24 hours old.
C19_Witness ==
  /\ last.op = "cleanup"
  /\ now = 86800
  /\ request_times = <<[key |-> "b1", value |-> <<>>], [key |-> "b2", value |-> <<400>>]>>

\* What get_stats reports under "all" for the given cumulative counters.
AllReport(tr) == DictGet(GetStatsResult(<<"all">>, request_times, tr, now), "all", <<>>)

AllCount(tr, url) == DictGet(AllReport(tr).backends, url, [count |-> 0]).count

\* C20: the count reported under "all" for a url starts at 0, grows by one
\* with every record_request(url) and is changed by nothing else (add,
\* remove, set_scheduler, cleanup, health probes, the passing of time), and
\* the total under "all" is the sum of the counts.
C20_CumulativeCounts ==
  /\ \A u \in PoolUrls : AllCount(total_requests, u) = 0
  /\ [][\A u \in PoolUrls :
          /\ AllCount(total_requests', u)
               = AllCount(total_requests, u)
                   + (IF last'.op = "record_request" /\ last'.arg = u THEN 1 ELSE 0)
          /\ AllReport(total_requests').total
               = AllReport(total_requests).total
                   + (IF last'.op = "record_request" THEN 1 ELSE 0)]_vars

\* C20 witness: b1 had a request recorded, was removed from the pool and
\* had its timestamp aged out by a cleanup pass; "all" still counts it.
C20_Witness ==
  /\ last.op = "cleanup"
  /\ \A i \in 1..Len(backends) : objs[backends[i]].url # "b1"
  /\ DictGet(request_times, "b1", <<0>>) = <<>>
  /\ AllCount(total_requests, "b1") = 1
  /\ AllReport(total_requests).total = 2

\* C21: starting and stopping the background loops is idempotent.  At most
\* one loop task of each kind exists, and one exists iff the pool holds its
\* handle; a start while the handle is set creates no task; a stop without
\* a handle changes nothing; none of these calls raises.
LoopOps ==
  {"start_health_checks", "stop_health_checks", "start_stats_cleanup", "stop_stats_cleanup"}

LoopKindOf(op) ==
  IF op \in {"start_health_checks", "stop_health_checks"} THEN "health_check" ELSE "cleanup"

LoopStep(prefix) ==
  /\ last'.op \in LoopOps
  /\ \E k \in {"health_checks", "stats_cleanup"} : last'.op = prefix \o k

C21_LoopsIdempotent ==
  /\ [](\A k \in LoopKinds :
          /\ loops[k].live <= 1
          /\ loops[k].live = (IF loops[k].task = None THEN 0 ELSE 1))
  /\ [](last.op \in LoopOps => last.err = NoError)
  /\ [][/\ (LoopStep("start_") /\ loops[LoopKindOf(last'.op)].task # None) => loops' = loops
        /\ (LoopStep("stop_") /\ loops[LoopKindOf(last'.op)].task = None) => loops' = loops
        /\ (LoopStep("start_") /\ loops[LoopKindOf(last'.op)].task = None)
              => loops'[LoopKindOf(last'.op)].live = 1]_vars

\* A second start found the health check loop running and created no task.
C21_Witness ==
  /\ last.op = "start_health_checks" /\ last.arg = "noop"
  /\ loops["health_check"].live = 1
  /\ loops["cleanup"].task = None

\* C22: label-set keys are order-insensitive.  Within a metric name no two
\* entries of a family carry the same set of labels, whatever the order in
\* which the labels were written; every key has its items in label-name
\* order.
ItemSet(key) == {key[i] : i \in 1..Len(key)}

Families == {metrics.counters, metrics.histograms, metrics.gauges}

C22_LabelOrderInsensitive ==
  \A fam \in Families : \A n \in 1..Len(fam) :
    LET by_labels == fam[n].value
    IN /\ \A i, j \in 1..Len(by_labels) :
            ItemSet(by_labels[i].key) = ItemSet(by_labels[j].key) => i = j
       /\ \A i \in 1..Len(by_labels) :
            \A a, b \in 1..Len(by_labels[i].key) :
              a < b => LabelRank(by_labels[i].key[a].k) < LabelRank(by_labels[i].key[b].k)

\* backend.requests.total was incremented with {backend, status} and then
\* with {status, backend}: one counter of value 2.
C22_Witness ==
  /\ last.op = "increment_counter"
  /\ last.log = <<Item("status", "200"), Item("backend", "b1")>>
  /\ metrics.counters =
       <<[key |-> "backend.requests.total",
          value |-> <<[key |-> <<Item("backend", "b1"), Item("status", "200")>>, value |-> 2]>>]>>

\* C23: every counter is monotonically non-decreasing over any sequence of
\* registry operations (a counter that does not exist counts as 0).
C23_CountersMonotone ==
  [][\A n \in CounterNames : \A l \in LabelInputs :
       FamilyGet(metrics'.counters, n, make_labels_key(l), 0)
         >= FamilyGet(metrics.counters, n, make_labels_key(l), 0)]_vars

\* C24: get_metrics completes for every registry state and returns the
\* nested mapping.
C24_GetMetricsCompletes ==
  last.op = "get_metrics" => (last.err = NoError /\ Len(last.stats) = 1)

\* C25: a scheduler of any policy configured with the empty list yields
\* nothing: the first next() on its generator ends with StopIteration, with
\* no backend, no other exception and no blocking.  select_backend on a
\* pool without backends returns none, whatever the installed scheduler.
C25_EmptyYieldsNothing ==
  /\ (last.op = "next" /\ Configured = {})
       => (last.err = "StopIteration" /\ last.ret = None /\ scheduler_iter = DoneIter)
  /\ LET r == SelectOutcome(<<>>, scheduler, scheduler_iter, objs)
     IN r.ret = None /\ r.err = NoError

\* The generator of an empty round robin scheduler was stepped.
C25_Witness ==
  /\ last.op = "next"
  /\ Configured = {}
  /\ scheduler.kind = "round_robin"
  /\ scheduler.backends = <<>>
  /\ last.err = "StopIteration"

\* C29: release tolerates a backend that was removed or replaced since it
\* was selected: the call completes without error and changes no field of
\* any backend in the pool map.
C29_ReleaseToleratesRemoval ==
  [][(last'.op = "release" /\ last'.ret \notin Range(backends'))
       => /\ last'.err = NoError
          /\ backends' = backends
          /\ \A i \in 1..Len(backends) : objs'[backends'[i]] = objs[backends[i]]]_vars

\* The number of events e among the first n of a trace.
Count(events, e, n) == Cardinality({i \in 1..n : events[i] = e})

\* The pool lock is held when the i-th event of the trace happens.
PoolHeldAt(events, i) ==
  Count(events, "pool.acquire", i - 1) > Count(events, "pool.release", i - 1)

\* C26: select_backend, release, record_request, get_stats, show, add,
\* remove and set_scheduler each acquire the pool lock exactly once, and
\* every write to the backends map, the scheduler, the cursor and the
\* source-hash flag happens while the pool lock is held.
PoolLockOps ==
  {"select_backend", "release", "record_request", "get_stats", "show", "membership",
   "set_scheduler"}

GuardedWrites ==
  {"write backends", "write scheduler", "write scheduler_iter", "write source_hash"}

C26_PoolLockOncePerOperation ==
  /\ last.op \in PoolLockOps
       => Count(last.events, "pool.acquire", Len(last.events)) = 1
  /\ \A i \in 1..Len(last.events) :
       last.events[i] \in GuardedWrites => PoolHeldAt(last.events, i)

\* C27: no task acquires the metrics lock while it holds the pool lock:
\* the gauge of select_backend, select_backend_by_ip and release is emitted
\* after the pool lock is released.
C27_MetricsAfterPoolLock ==
  \A i \in 1..Len(last.events) :
    last.events[i] = "metrics.acquire" => ~PoolHeldAt(last.events, i)

\* C28: the healthy bit of a backend is written only while the pool lock
\* is held.
C28_HealthyWrittenUnderLock ==
  \A i \in 1..Len(last.events) :
    last.events[i] = "write healthy" => PoolHeldAt(last.events, i)

\* C30: for every url of the pool, the active_connections that show()
\* reports is the number of requests dispatched to that url and not yet
\* released.
Unreleased(url) ==
  SumUpTo([o \in Objs |-> IF objs[o].url = url THEN held[o] ELSE 0], MaxObjs)

C30_ShowCountsInFlight ==
  last.op = "show"
    => \A i \in 1..Len(last.stats) :
         last.stats[i].value.active_connections = Unreleased(last.stats[i].key)

\* C31: set_scheduler with a name outside the six algorithm names raises
\* the unknown-algorithm error and leaves the scheduler object, the cursor
\* and the source-hash flag as they were.
C31_FailedSetSchedulerChangesNothing ==
  [][(last'.op = "set_scheduler" /\ last'.err # NoError)
       => /\ last'.err = "ValueError"
          /\ scheduler' = scheduler
          /\ scheduler_iter' = scheduler_iter
          /\ source_hash' = source_hash]_vars

\* C32: a url that is not in the pool map is not returned by
\* select_backend or select_backend_by_ip: the backend returned is the
\* object the map holds, so a removed url stays out until it is added
\* again, whatever the scheduler and its cursor were at the removal.
C32_RemovedNotSelected ==
  (last.op \in {"select_backend", "select_backend_by_ip"} /\ last.ret # None)
    => /\ last.ret \in Range(backends)
       /\ \A o \in Range(scheduler.backends) \cup Range(scheduler.weighted) :
            o \in Range(backends)

\* A select returned a backend while a request still holds the object of
\* a url that was removed after it was selected and not added again.
C32_Witness ==
  /\ last.op = "select_backend"
  /\ last.ret \in Range(backends)
  /\ \E o \in Objs :
       /\ held[o] > 0
       /\ o \notin Range(backends)
       /\ \A p \in Range(backends) : objs[p].url # objs[o].url

\* C34: when start_health_checks (start_stats_cleanup) returns, a loop
\* task of its kind is running and has not been cancelled, also when the
\* start is issued while an earlier stop is still waiting for the
\* cancelled task; the loop then keeps running until a stop is begun.
C34_StartNotLost ==
  [][\A k \in LoopKinds :
       /\ (LoopStep("start_") /\ LoopKindOf(last'.op) = k) => LoopRuns(Cur', k)
       /\ (LoopRuns(Cur, k) /\ ~(LoopStep("stop_") /\ LoopKindOf(last'.op) = k))
            => LoopRuns(Cur', k)]_vars

\* C33: the pool lock and the metrics lock cannot deadlock.  No task waits
\* for the pool lock while it holds the metrics lock; every task that has
\* begun an operation completes it; each lock is free again and again.
WaitsFor(t, l) ==
  \/ t \in Range(locks.waiters[l])
  \/ (locks.todo[t] # <<>> /\ Head(locks.todo[t]) = l \o ".acquire")

C33_NoDeadlock ==
  /\ [](\A t \in 1..NumTasks : ~(locks.owner["metrics"] = t /\ WaitsFor(t, "pool")))
  /\ \A t \in 1..NumTasks : (locks.todo[t] # <<>>) ~> (locks.todo[t] = <<>>)
  /\ \A l \in {"pool", "metrics"} : []<>(locks.owner[l] = None)

\* A task that holds the pool lock waits in the queue of the metrics lock,
\* which the other task holds.
C33_Witness ==
  \E t, u \in 1..NumTasks :
    /\ t # u
    /\ locks.owner["pool"] = t
    /\ locks.waiters["metrics"] = <<t>>
    /\ locks.owner["metrics"] = u

====
